---- MODULE Spec2Model ----
(***************************************************************************)
(* A model of src/blackjack_env.py: the three Blackjack environments       *)
(* (BlackjackEnv, BlackjackDoubleEnv, BlackjackCountingEnv), their hand    *)
(* arithmetic, the reset/step handlers, the counted shoe and the           *)
(* enumerated observation space.                                           *)
(*                                                                         *)
(* Rewards are Python floats in {-2, -1, 0, 1, 1.5, 2, 3}; the model keeps *)
(* every reward as TWICE its value, an integer (1.0 is 2, 1.5 is 3).       *)
(***************************************************************************)
EXTENDS Integers, Sequences, FiniteSets, TLC

\* ---------------------------------------------------------------- bounds
\* The harness hits at most MaxHits times in one episode.
MaxHits == 2
\* Only the runs of the random source in which the dealer's play-out draws
\* at most MaxDealerDraws cards are followed.
MaxDealerDraws == 2
\* The longest hand the hand functions are evaluated on.
MaxHandLen == 4
\* The outcomes of the random source that are followed.  In the infinite-deck
\* variants np_random.choice(deck) yields one of these entries of deck; in the
\* counted shoe np_random.choice(len(self.decks)) yields one of these
\* positions (1-based) of the shoe, when the shoe is that long.
DeckChoices == {1, 5, 10}
PickChoices == {1, 2}
\* The arguments an erroneous caller passes to step.
ActionArgs == {-1, 2, 3}
\* The constructor arguments the counted-shoe instances are built with.
NumDecksChoices == {1}
ReshuffleLimits == {2, 5}

\* ------------------------------------------------------- module constants
\* deck = [1, 2, 3, 4, 5, 6, 7, 8, 9, 10, 10, 10, 10]
deck == <<1, 2, 3, 4, 5, 6, 7, 8, 9, 10, 10, 10, 10>>

\* counting_score: the weight of each card value 1..10
\* Faulty variant of the weights: the 5 weighs 4.
counting_score_heavy == <<-2, 1, 2, 2, 4, 2, 1, 0, -1, -2>>
counting_score == <<-2, 1, 2, 2, 3, 2, 1, 0, -1, -2>>

\* float(a > b) - float(a < b)
cmp(a, b) == (IF a > b THEN 1 ELSE 0) - (IF a < b THEN 1 ELSE 0)

\* ------------------------------------------------------------ list helpers
RECURSIVE sum(_)
sum(hand) == IF hand = <<>> THEN 0 ELSE hand[1] + sum(Tail(hand))

\* Faulty variant of pop: the card is read but stays in the list.
pop_none(list, i) == list
\* list.pop(i) leaves the list without its i-th element (i is 1-based here)
pop(list, i) == SubSeq(list, 1, i - 1) \o SubSeq(list, i + 1, Len(list))

\* deck * n
RECURSIVE repeat(_, _)
repeat(list, n) == IF n <= 0 THEN <<>> ELSE list \o repeat(list, n - 1)

RECURSIVE insert(_, _)
insert(x, s) ==
    IF s = <<>> THEN <<x>>
    ELSE IF x <= s[1] THEN <<x>> \o s
    ELSE <<s[1]>> \o insert(x, Tail(s))

RECURSIVE sorted(_)
sorted(hand) == IF hand = <<>> THEN <<>> ELSE insert(hand[1], sorted(Tail(hand)))

\* --------------------------------------------------------- hand arithmetic
usable_ace(hand) == (\E i \in DOMAIN hand : hand[i] = 1) /\ sum(hand) + 10 <= 21

sum_hand(hand) == IF usable_ace(hand) THEN sum(hand) + 10 ELSE sum(hand)

is_bust(hand) == sum_hand(hand) > 21

\* Faulty variant of score: a bust hand keeps its total.
score_keeps_total(hand) == sum_hand(hand)
score(hand) == IF is_bust(hand) THEN 0 ELSE sum_hand(hand)

is_natural(hand) == sorted(hand) = <<1, 10>>

\* ------------------------------------------------------------------ state
VARIABLES
    variant,          \* "base" | "double" | "counting": the class of the instance
    natural,          \* self.natural
    sab,              \* self.sab
    num_decks,        \* self.num_decks (counting; 0 otherwise)
    reshuffle_limit,  \* self.reshuffle_limit (counting; 0 otherwise)
    decks,            \* self.decks: the shoe (counting; <<>> otherwise)
    count,            \* self.count (counting; 0 otherwise)
    dealer,           \* self.dealer (<<>> before the first reset)
    player,           \* self.player (<<>> before the first reset)
    lastOp,           \* the last call: "init", "reset", "hit", "stick", "double",
                      \* "invalid" (a step with an action outside the action set)
    raised,           \* the last call ended in an exception
    obs,              \* the observation the last call returned
    reward,           \* twice the reward the last step returned (0 after reset)
    done,             \* the done flag the last step returned (FALSE after reset)
    drawn,            \* history: how many cards of each value were drawn since
                      \* the last reshuffle
    reshuffled,       \* history: the last call ran reshuffle_decks
    evald,            \* the hand functions' results on a hand: hand, usable,
                      \* total, bust, score (hand <<>>: none evaluated)
    lookup,           \* a get_obs_id call: the tuple o asked for, at: its index
                      \* in get_all_states() when it was taken from there (-1
                      \* otherwise), found (no KeyError), the id got (-1: none)
    pc                \* where the running step call is: "idle" between calls,
                      \* "loop" at the test of the dealer's while loop

vars == <<variant, natural, sab, num_decks, reshuffle_limit, decks, count,
          dealer, player, lastOp, raised, obs, reward, done, drawn, reshuffled,
          evald, lookup, pc>>

NoneDrawn == [v \in 1..10 |-> 0]

\* No hand evaluated, no table lookup made.
NoEval == [hand |-> <<>>, usable |-> FALSE, total |-> 0, bust |-> FALSE, score |-> 0]
NoLookup == [at |-> -1, o |-> <<>>, found |-> FALSE, id |-> -1]
\* What reset and step leave alone besides the instance.
aux == <<evald, lookup, pc>>

\* The shoe with its count (and the history of what left it).
Shoe == [decks |-> decks, count |-> count, drawn |-> drawn]

\* Faulty variant of reshuffle_decks: the count survives the reshuffle.
reshuffle_decks_keeps_count ==
    [decks |-> repeat(deck, num_decks), count |-> count, drawn |-> NoneDrawn]
\* reshuffle_decks: self.decks = deck * self.num_decks; self.count = 0
reshuffle_decks == [decks |-> repeat(deck, num_decks), count |-> 0, drawn |-> NoneDrawn]

\* BlackjackEnv.draw_card: int(np_random.choice(deck)); the shoe is not touched.
\* The set of the outcomes [card, shoe].
draw_card_base(s) == {[card |-> c, shoe |-> s] : c \in DeckChoices}

\* card = self.decks.pop(i); self.count += counting_score[card]; return card
draw_at(s, i) ==
    [card |-> s.decks[i],
     shoe |-> [decks |-> pop(s.decks, i),
               count |-> s.count + counting_score[s.decks[i]],
               drawn |-> [s.drawn EXCEPT ![s.decks[i]] = @ + 1]]]

\* Faulty variants of draw_card: the weight subtracted; a reshuffle inside the draw.
draw_card_counting_sub(s) ==
    {[card |-> s.decks[i],
      shoe |-> [decks |-> pop(s.decks, i),
                count |-> s.count - counting_score[s.decks[i]],
                drawn |-> [s.drawn EXCEPT ![s.decks[i]] = @ + 1]]] :
        i \in PickChoices \cap (1..Len(s.decks))}
draw_card_counting_reshuffling(s) ==
    LET t == IF Len(s.decks) < reshuffle_limit THEN reshuffle_decks ELSE s
    IN {[card |-> t.decks[i],
         shoe |-> [decks |-> pop(t.decks, i),
                   count |-> t.count + counting_score[t.decks[i]],
                   drawn |-> [t.drawn EXCEPT ![t.decks[i]] = @ + 1]]] :
           i \in PickChoices \cap (1..Len(t.decks))}

\* Faulty variant of draw_card: an empty shoe is refilled and the draw retried.
draw_card_counting_refill(s) ==
    LET t == IF s.decks = <<>> THEN reshuffle_decks ELSE s
    IN {[card |-> t.decks[i],
         shoe |-> [decks |-> pop(t.decks, i),
                   count |-> t.count + counting_score[t.decks[i]],
                   drawn |-> [t.drawn EXCEPT ![t.decks[i]] = @ + 1]]] :
           i \in PickChoices \cap (1..Len(t.decks))}

\* BlackjackCountingEnv.draw_card: pop the card at a random position, add its
\* weight to the count.  The set of the outcomes [card, shoe]; empty on an
\* empty shoe (choice(0) raises).
draw_card_counting(s) == {draw_at(s, i) : i \in PickChoices \cap (1..Len(s.decks))}

draw_card(s) == IF variant = "counting" THEN draw_card_counting(s) ELSE draw_card_base(s)

\* _get_obs of the instance's class, for the hands and count given.
get_obs(p, d, c) ==
    IF variant = "counting"
    THEN <<sum_hand(p), d[1], usable_ace(p), c>>
    ELSE <<sum_hand(p), d[1], usable_ace(p)>>

\* n successive draw_card calls from shoe s: the outcomes [cards, shoe, ok];
\* ok is FALSE when a draw raised, cards and shoe being those before it.
RECURSIVE draw_n(_, _)
draw_n(s, n) ==
    IF n = 0 THEN {[cards |-> <<>>, shoe |-> s, ok |-> TRUE]}
    ELSE IF draw_card(s) = {} THEN {[cards |-> <<>>, shoe |-> s, ok |-> FALSE]}
    ELSE UNION {{[cards |-> <<o.card>> \o r.cards, shoe |-> r.shoe, ok |-> r.ok] :
                    r \in draw_n(o.shoe, n - 1)} : o \in draw_card(s)}

\* ------------------------------------------------------ observation space
\* Faulty variant of range: the numbers listed downwards.
range_down(a, b) == [i \in 1..(b - a) |-> b - i]
\* list(range(a, b))
range(a, b) == [i \in 1..(b - a) |-> a + (i - 1)]

\* list(product(X, Y, Z)): every triple, the rightmost axis advancing fastest
product3(X, Y, Z) ==
    [k \in 1..(Len(X) * Len(Y) * Len(Z)) |->
        <<X[((k - 1) \div (Len(Y) * Len(Z))) + 1],
          Y[(((k - 1) \div Len(Z)) % Len(Y)) + 1],
          Z[((k - 1) % Len(Z)) + 1]>>]

\* list(it): the items it[lo..hi] of an iterable stored one by one
RECURSIVE listed(_, _, _)
listed(it, lo, hi) ==
    IF lo > hi THEN <<>>
    ELSE IF lo = hi THEN <<it[lo]>>
    ELSE LET mid == (lo + hi) \div 2
         IN listed(it, lo, mid) \o listed(it, mid + 1, hi)
list_of(it) == listed(it, 1, Len(it))

\* { state : id for id, state in enumerate(states) }, for the entries lo..hi
\* of states: an entry listed later replaces the id of an equal earlier one.
RECURSIVE enumerated(_, _, _)
enumerated(states, lo, hi) ==
    IF lo = hi THEN (states[lo] :> (lo - 1))
    ELSE LET mid == (lo + hi) \div 2
         IN enumerated(states, mid + 1, hi) @@ enumerated(states, lo, mid)
mapping(states) == enumerated(states, 1, Len(states))

\* Faulty variant of the enumeration: the flag axis lists True twice.
base_states_flag_twice == list_of(product3(range(4, 32), range(1, 11), <<TRUE, TRUE>>))
\* Faulty variant of the enumeration: the totals stop at 30.
base_states_short == list_of(product3(range(4, 31), range(1, 11), <<TRUE, FALSE>>))
\* list(product(range(4, 32), range(1, 11), (True, False)))
base_states == list_of(product3(range(4, 32), range(1, 11), <<TRUE, FALSE>>))

\* self.counting_max = 11 * num_decks
counting_max(nd) == 11 * nd

\* [(*S, cnt) for S, cnt in product(self.all_states, range(-counting_max, counting_max))]
counting_states(nd) ==
    LET cnts == range(-counting_max(nd), counting_max(nd))
    IN list_of([k \in 1..(Len(base_states) * Len(cnts)) |->
                Append(base_states[((k - 1) \div Len(cnts)) + 1],
                       cnts[((k - 1) % Len(cnts)) + 1])])

counting_states_of == [nd \in NumDecksChoices |-> counting_states(nd)]

\* self.all_states of the instance
all_states == IF variant = "counting" THEN counting_states_of[num_decks] ELSE base_states

\* self.all_states_mapping of the instance
base_mapping == mapping(base_states)
counting_mapping_of == [nd \in NumDecksChoices |-> mapping(counting_states_of[nd])]
all_states_mapping ==
    IF variant = "counting" THEN counting_mapping_of[num_decks] ELSE base_mapping

\* get_all_states()[id], ids counting from 0
state_at(id) == all_states[id + 1]

\* obs in self.all_states_mapping: the lookup of get_obs_id does not raise KeyError
has_obs_id(o) == o \in DOMAIN all_states_mapping

\* get_obs_id(obs) = self.all_states_mapping[obs]
get_obs_id(o) == all_states_mapping[o]

\* get_states_count()
get_states_count == Len(all_states)

\* get_actions_count(): len(self.all_actions)
get_actions_count == IF variant = "base" THEN 2 ELSE 3

Init ==
    /\ variant \in {"base", "double", "counting"}
    /\ natural \in BOOLEAN
    /\ sab \in BOOLEAN
    /\ IF variant = "counting"
       THEN /\ num_decks \in NumDecksChoices
            /\ reshuffle_limit \in ReshuffleLimits
            /\ decks = repeat(deck, num_decks)
       ELSE /\ num_decks = 0
            /\ reshuffle_limit = 0
            /\ decks = <<>>
    /\ count = 0
    /\ dealer = <<>>
    /\ player = <<>>
    /\ lastOp = "init"
    /\ raised = FALSE
    /\ obs = <<>>
    /\ reward = 0
    /\ done = FALSE
    /\ drawn = NoneDrawn
    /\ reshuffled = (variant = "counting")
    /\ evald = NoEval
    /\ lookup = NoLookup
    /\ pc = "idle"

\* if len(self.decks) < self.reshuffle_limit (needs_reshuffle_le: a faulty variant, <=)
needs_reshuffle_le == Len(decks) <= reshuffle_limit
needs_reshuffle == Len(decks) < reshuffle_limit

\* BlackjackEnv.reset / BlackjackCountingEnv.reset
reset ==
    /\ ~raised
    /\ LET shuffle == variant = "counting" /\ needs_reshuffle
           s0 == IF shuffle THEN reshuffle_decks ELSE Shoe
       IN \E d \in draw_n(s0, 2) :
            IF ~d.ok
            THEN \* draw_hand raised before self.dealer was assigned
                 /\ decks' = d.shoe.decks /\ count' = d.shoe.count /\ drawn' = d.shoe.drawn
                 /\ raised' = TRUE
                 /\ UNCHANGED <<dealer, player, obs, reward, done>>
            ELSE \E p \in draw_n(d.shoe, 2) :
                 /\ decks' = p.shoe.decks /\ count' = p.shoe.count /\ drawn' = p.shoe.drawn
                 /\ dealer' = d.cards
                 /\ IF ~p.ok
                    THEN /\ raised' = TRUE
                         /\ UNCHANGED <<player, obs, reward, done>>
                    ELSE /\ raised' = FALSE
                         /\ player' = p.cards
                         /\ obs' = get_obs(p.cards, d.cards, p.shoe.count)
                         /\ reward' = 0
                         /\ done' = FALSE
    /\ lastOp' = "reset"
    /\ reshuffled' = (variant = "counting" /\ needs_reshuffle)
    /\ UNCHANGED <<variant, natural, sab, num_decks, reshuffle_limit, aux>>

\* The episode as a step sees it: the hands and the shoe.
Env == [player |-> player, dealer |-> dealer, shoe |-> Shoe]

\* Faulty variant of the hit branch: a total of 21 already counts as a bust.
step_hit_bust_at_21(e) ==
    IF draw_card(e.shoe) = {}
    THEN {[env |-> e, reward |-> 0, done |-> FALSE, ok |-> FALSE]}
    ELSE {LET p == Append(e.player, o.card)
          IN [env |-> [player |-> p, dealer |-> e.dealer, shoe |-> o.shoe],
              reward |-> IF sum_hand(p) >= 21 THEN -2 ELSE 0,
              done |-> sum_hand(p) >= 21,
              ok |-> TRUE] : o \in draw_card(e.shoe)}

\* step, hit branch: self.player.append(self.draw_card(...)); bust ends the
\* episode with reward -1.0.  The outcomes [env, reward, done, ok]; ok FALSE
\* when draw_card raised.
step_hit(e) ==
    IF draw_card(e.shoe) = {}
    THEN {[env |-> e, reward |-> 0, done |-> FALSE, ok |-> FALSE]}
    ELSE {LET p == Append(e.player, o.card)
          IN [env |-> [player |-> p, dealer |-> e.dealer, shoe |-> o.shoe],
              reward |-> IF is_bust(p) THEN -2 ELSE 0,
              done |-> is_bust(p),
              ok |-> TRUE] : o \in draw_card(e.shoe)}

\* Faulty variant of the dealer's loop: the dealer also draws on 17.
RECURSIVE play_dealer_hits_17(_, _, _)
play_dealer_hits_17(s, d, n) ==
    IF ~(sum_hand(d) <= 17) THEN {[dealer |-> d, shoe |-> s, ok |-> TRUE]}
    ELSE IF draw_card(s) = {} THEN {[dealer |-> d, shoe |-> s, ok |-> FALSE]}
    ELSE IF n = 0 THEN {}
    ELSE UNION {play_dealer_hits_17(o.shoe, Append(d, o.card), n - 1) : o \in draw_card(s)}

\* while self.sum_hand(self.dealer) < 17: self.dealer.append(self.draw_card(...))
\* The outcomes [dealer, shoe, ok] of the loop from dealer hand d and shoe s,
\* following at most n draws; ok FALSE when draw_card raised inside the loop.
RECURSIVE play_dealer(_, _, _)
play_dealer(s, d, n) ==
    IF ~(sum_hand(d) < 17) THEN {[dealer |-> d, shoe |-> s, ok |-> TRUE]}
    ELSE IF draw_card(s) = {} THEN {[dealer |-> d, shoe |-> s, ok |-> FALSE]}
    ELSE IF n = 0 THEN {}
    ELSE UNION {play_dealer(o.shoe, Append(d, o.card), n - 1) : o \in draw_card(s)}

\* Faulty variants of the reward: the natural bonus tried before the S&B rule; the
\* bonus paid whatever the comparison gave.
stick_reward_bonus_first(p, d) ==
    LET raw == cmp(score(p), score(d))
    IN IF natural /\ is_natural(p) /\ raw = 1 THEN 3
       ELSE IF sab /\ is_natural(p) /\ ~is_natural(d) THEN 2
       ELSE 2 * raw
stick_reward_bonus_any(p, d) ==
    LET raw == cmp(score(p), score(d))
    IN IF sab /\ is_natural(p) /\ ~is_natural(d) THEN 2
       ELSE IF ~sab /\ natural /\ is_natural(p) THEN 3
       ELSE 2 * raw

\* The reward of a stick (twice its value) for the final hands p and d:
\* cmp of the scores, then the S&B and the natural overrides.
stick_reward(p, d) ==
    LET raw == cmp(score(p), score(d))
    IN IF sab /\ is_natural(p) /\ ~is_natural(d) THEN 2
       ELSE IF ~sab /\ natural /\ is_natural(p) /\ raw = 1 THEN 3
       ELSE 2 * raw

\* step, stick branch.  The outcomes [env, reward, done, ok].
step_stick(e) ==
    {[env |-> [player |-> e.player, dealer |-> r.dealer, shoe |-> r.shoe],
      reward |-> IF r.ok THEN stick_reward(e.player, r.dealer) ELSE 0,
      done |-> r.ok,
      ok |-> r.ok] : r \in play_dealer(e.shoe, e.dealer, MaxDealerDraws)}

\* Faulty variant of the double branch: the stick is played also after a bust.
step_double_always_sticks(e) ==
    UNION {IF h.ok
           THEN {[s EXCEPT !.reward = 2 * @] : s \in step_stick(h.env)}
           ELSE {[h EXCEPT !.reward = 2 * @]} : h \in step_hit(e)}

\* Faulty variant of the double branch: the stick scores the hand as dealt.
step_double_scores_dealt_hand(e) ==
    UNION {IF h.ok /\ ~h.done
           THEN {[s EXCEPT !.reward =
                     IF s.ok THEN 2 * stick_reward(e.player, s.env.dealer) ELSE 0] :
                    s \in step_stick(h.env)}
           ELSE {[h EXCEPT !.reward = 2 * @]} : h \in step_hit(e)}

\* step, double branch: self.step(1); if not done: self.step(0); reward *= 2
step_double(e) ==
    UNION {IF h.ok /\ ~h.done
           THEN {[s EXCEPT !.reward = 2 * @] : s \in step_stick(h.env)}
           ELSE {[h EXCEPT !.reward = 2 * @]} : h \in step_hit(e)}

\* The effect of one step call whose outcome is r.  A call that raised
\* returns nothing: obs, reward and done stay those of the call before.
Return(r, op) ==
    /\ player' = r.env.player
    /\ dealer' = r.env.dealer
    /\ decks' = r.env.shoe.decks
    /\ count' = r.env.shoe.count
    /\ drawn' = r.env.shoe.drawn
    /\ raised' = ~r.ok
    /\ IF r.ok
       THEN /\ obs' = get_obs(r.env.player, r.env.dealer, r.env.shoe.count)
            /\ reward' = r.reward
            /\ done' = r.done
       ELSE UNCHANGED <<obs, reward, done>>
    /\ lastOp' = op
    /\ reshuffled' = FALSE
    /\ UNCHANGED <<variant, natural, sab, num_decks, reshuffle_limit, aux>>

\* self.action_space = spaces.Discrete(2) in BlackjackEnv, Discrete(3) in the
\* two subclasses
action_space_n == IF variant = "base" THEN 2 ELSE 3

\* Faulty variant of the action check: every action passes.
action_space_contains_any(a) == TRUE
\* self.action_space.contains(action)
action_space_contains(a) == a \in 0..(action_space_n - 1)

\* step(action): the assertion, then the branch the class takes for action
\* (BlackjackEnv: "if action" / else; the subclasses: 2, 1, else).
step(a, e) ==
    IF ~action_space_contains(a)
    THEN {[env |-> e, reward |-> 0, done |-> FALSE, ok |-> FALSE]}
    ELSE IF variant = "base"
         THEN (IF a # 0 THEN step_hit(e) ELSE step_stick(e))
         ELSE (IF a = 2 THEN step_double(e)
               ELSE IF a = 1 THEN step_hit(e)
               ELSE step_stick(e))

\* The harness steps an episode that reset has started and no step has ended.
InEpisode == lastOp # "init" /\ ~raised /\ ~done

Hit ==
    /\ InEpisode
    /\ Len(player) < 2 + MaxHits
    /\ \E r \in step_hit(Env) : Return(r, "hit")

Stick ==
    /\ InEpisode
    /\ \E r \in step_stick(Env) : Return(r, "stick")

Double ==
    /\ InEpisode
    /\ variant # "base"
    /\ Len(player) < 2 + MaxHits
    /\ \E r \in step_double(Env) : Return(r, "double")

\* step called with an action that is not one of self.all_actions
Invalid ==
    /\ InEpisode
    /\ \E a \in ActionArgs :
          /\ a \notin 0..(get_actions_count - 1)
          /\ \E r \in step(a, Env) : Return(r, "invalid")

Next == reset \/ Hit \/ Stick \/ Double \/ Invalid

Spec == Init /\ [][Next]_vars

\* ================================================================= claims
\* The weight of the cards counted in dr, a per-value tally.
RECURSIVE WeightUpTo(_, _)
WeightUpTo(dr, v) == IF v = 0 THEN 0 ELSE counting_score[v] * dr[v] + WeightUpTo(dr, v - 1)
Weight(dr) == WeightUpTo(dr, 10)

RECURSIVE TallyUpTo(_, _)
TallyUpTo(dr, v) == IF v = 0 THEN 0 ELSE dr[v] + TallyUpTo(dr, v - 1)
Tally(dr) == TallyUpTo(dr, 10)

\* The weight of the cards of a hand.
RECURSIVE HandWeight(_)
HandWeight(h) == IF h = <<>> THEN 0 ELSE counting_score[h[1]] + HandWeight(Tail(h))

\* How many cards of value v the list holds.
RECURSIVE Occurs(_, _)
Occurs(list, v) ==
    IF list = <<>> THEN 0
    ELSE (IF list[1] = v THEN 1 ELSE 0) + Occurs(Tail(list), v)

Returned == lastOp # "init" /\ ~raised
StepOps == {"hit", "stick", "double"}

\* C1: in the counted shoe the running count is, in every reachable state, the
\* sum of the counting weights of the cards drawn since the last reshuffle
\* (0 right after a reshuffle, when none is drawn).
C1_CountIsWeightOfDrawn ==
    variant = "counting" =>
        /\ count = Weight(drawn)
        /\ (Tally(drawn) = 0 => count = 0)

C1_Witness ==
    /\ variant = "counting"
    /\ lastOp = "stick"
    /\ Tally(drawn) >= 9
    /\ count = 3

\* C2: in the counted shoe the size of the shoe plus the number of cards drawn
\* since the last reshuffle is 13 * num_decks, and every card value is either
\* in the shoe or drawn.
C2_ShoeConservation ==
    variant = "counting" =>
        /\ Len(decks) + Tally(drawn) = Len(deck) * num_decks
        /\ \A v \in 1..10 : Occurs(decks, v) + drawn[v] = Occurs(deck, v) * num_decks

C2_Witness ==
    /\ variant = "counting"
    /\ lastOp = "hit"
    /\ Len(decks) = 2
    /\ Tally(drawn) = 11

\* C3: in the counted shoe a reset that finds fewer than reshuffle_limit cards
\* deals its four cards from a fresh shoe of 13 * num_decks cards with the
\* count back at 0; a reset that finds reshuffle_limit cards or more deals
\* from the shoe as it is and adds to the count as it is.
C3_ResetReshufflesBelowLimit ==
    [][(variant = "counting" /\ lastOp' = "reset") =>
        LET dealt == dealer' \o player'
        IN IF Len(decks) < reshuffle_limit
           THEN /\ ~raised'
                /\ Len(dealt) = 4
                /\ Len(decks') = Len(deck) * num_decks - 4
                /\ count' = HandWeight(dealt)
                /\ \A v \in 1..10 :
                      Occurs(decks', v) + Occurs(dealt, v) = Occurs(deck, v) * num_decks
           ELSE /\ \A v \in 1..10 : Occurs(decks', v) <= Occurs(decks, v)
                /\ ~raised' =>
                      /\ Len(dealt) = 4
                      /\ Len(decks') = Len(decks) - 4
                      /\ count' = count + HandWeight(dealt)
                      /\ \A v \in 1..10 :
                            Occurs(decks', v) + Occurs(dealt, v) = Occurs(decks, v)
    ]_vars

C3_Witness ==
    /\ variant = "counting"
    /\ lastOp = "reset"
    /\ reshuffled
    /\ ~raised
    /\ Tally(drawn) = 4
    /\ count = HandWeight(dealer \o player)
    /\ count # 0

\* C4: in the counted shoe no step reshuffles: across a hit, a stick or a
\* double the shoe only loses cards, exactly those that joined the hands, and
\* the count moves by exactly their weights, also when the shoe is below
\* reshuffle_limit.
C4_StepNeverReshuffles ==
    [][(variant = "counting" /\ lastOp' \in StepOps) =>
        /\ Len(decks') <= Len(decks)
        /\ \A v \in 1..10 :
              /\ Occurs(decks', v) <= Occurs(decks, v)
              /\ drawn'[v] >= drawn[v]
        /\ Len(decks) - Len(decks') =
              (Len(player') + Len(dealer')) - (Len(player) + Len(dealer))
        /\ count' - count =
              (HandWeight(player') + HandWeight(dealer'))
                  - (HandWeight(player) + HandWeight(dealer))
    ]_vars

C4_Witness ==
    /\ variant = "counting"
    /\ lastOp = "hit"
    /\ ~raised
    /\ Len(decks) + 1 < reshuffle_limit

\* C5: in the counted shoe every observation that reset or a step returns is
\* listed in the enumerated state space: get_obs_id finds it and
\* get_all_states()[get_obs_id(s)] is s.
C5_ObsInStateSpace ==
    (variant = "counting" /\ Returned) =>
        /\ has_obs_id(obs)
        /\ state_at(get_obs_id(obs)) = obs

\* h extends g by cards appended at its end.
Extends(h, g) == Len(h) >= Len(g) /\ SubSeq(h, 1, Len(g)) = g

\* d is what the dealer's loop makes of hand g: cards were appended exactly
\* while the total was below 17.
PlayedOut(d, g) ==
    /\ Extends(d, g)
    /\ sum_hand(d) >= 17
    /\ \A n \in Len(g)..(Len(d) - 1) : sum_hand(SubSeq(d, 1, n)) < 17

\* C6: in the base and double-action environments every observation that
\* reset or a step returns has its total in 4..31, its upcard in 1..10 and a
\* boolean usable-ace flag, is found by get_obs_id, and
\* get_all_states()[get_obs_id(s)] is s.
C6_BaseObsInStateSpace ==
    (variant \in {"base", "double"} /\ Returned) =>
        /\ Len(obs) = 3
        /\ obs[1] \in 4..31
        /\ obs[2] \in 1..10
        /\ obs[3] \in BOOLEAN
        /\ has_obs_id(obs)
        /\ get_obs_id(obs) \in 0..(get_states_count - 1)
        /\ state_at(get_obs_id(obs)) = obs

C6_Witness ==
    /\ variant = "base"
    /\ lastOp = "hit"
    /\ done
    /\ obs = <<31, 10, FALSE>>

\* C7: a double that returns has appended exactly one card to the player
\* hand and is done; if that card busts the player the dealer hand is as it
\* was and the reward is -2.0, otherwise the dealer is played out as in stick
\* and the reward is twice the reward of that stick, overrides included.  A
\* double that raises (the shoe ran out) has appended at most that one card.
C7_DoubleIsHitThenStickDoubled ==
    [][(variant # "base" /\ lastOp' = "double") =>
        IF raised'
        THEN Extends(player', player) /\ Len(player') <= Len(player) + 1
        ELSE /\ Len(player') = Len(player) + 1
             /\ Extends(player', player)
             /\ done'
             /\ IF is_bust(player')
                THEN dealer' = dealer /\ reward' = -4
                ELSE /\ PlayedOut(dealer', dealer)
                     /\ reward' = 2 * stick_reward(player', dealer')
    ]_vars

C7_Witness ==
    /\ variant = "counting"
    /\ lastOp = "double"
    /\ ~raised
    /\ done
    /\ ~is_bust(player)
    /\ Len(dealer) >= 3
    /\ reward = 4

\* C8: with sab set, whatever the natural flag, a stick with a natural player
\* hand against a dealer hand that is no natural returns exactly +1.0, also
\* when the dealer reached 21 with three cards or more; and no stick returns
\* 1.5.
C8_SabNaturalWins ==
    (sab /\ lastOp = "stick" /\ ~raised) =>
        /\ (is_natural(player) /\ ~is_natural(dealer)) => reward = 2
        /\ reward # 3

C8_Witness ==
    /\ sab
    /\ natural
    /\ lastOp = "stick"
    /\ is_natural(player)
    /\ Len(dealer) >= 3
    /\ sum_hand(dealer) = 21
    /\ reward = 2

\* C9: a stick returns 1.5 exactly when sab is off, natural is on, the player
\* hand is a natural and the comparison of the scores gave +1 (which it does
\* for a natural exactly when the dealer's score is not 21); every other
\* stick with sab off returns the comparison itself, one of -1, 0, +1.
C9_NaturalBonus ==
    (lastOp = "stick" /\ ~raised) =>
        LET raw == cmp(score(player), score(dealer))
        IN /\ (reward = 3) <=> (~sab /\ natural /\ is_natural(player) /\ raw = 1)
           /\ is_natural(player) => ((raw = 1) <=> (score(dealer) # 21))
           /\ (~sab /\ reward # 3) => (reward = 2 * raw /\ raw \in {-1, 0, 1})

C9_Witness ==
    /\ ~sab
    /\ natural
    /\ lastOp = "stick"
    /\ is_natural(player)
    /\ is_bust(dealer)
    /\ reward = 3

\* C10: a hit that returns has appended exactly one card (in the counted shoe
\* the card that left the shoe) to the player hand and left the dealer hand
\* alone; it is done with reward -1.0 if the new total exceeds 21, and not
\* done with reward 0.0 otherwise.  (A hit that raises, the shoe being empty,
\* leaves both hands alone.)
C10_Hit ==
    [][(lastOp' = "hit" /\ raised') => (player' = player /\ dealer' = dealer)]_vars
    /\
    [][(lastOp' = "hit" /\ ~raised') =>
        /\ Len(player') = Len(player) + 1
        /\ Extends(player', player)
        /\ player'[Len(player')] \in 1..10
        /\ dealer' = dealer
        /\ variant = "counting" =>
              /\ Len(decks') = Len(decks) - 1
              /\ Occurs(decks', player'[Len(player')])
                    = Occurs(decks, player'[Len(player')]) - 1
        /\ IF sum_hand(player') > 21
           THEN done' /\ reward' = -2
           ELSE ~done' /\ reward' = 0
    ]_vars

C10_Witness ==
    /\ lastOp = "hit"
    /\ ~raised
    /\ sum_hand(player) = 21
    /\ Len(player) = 4
    /\ ~done
    /\ reward = 0

\* The sign of a difference, and the score of a hand as the rules give it: the
\* total, an ace counting 11 when that does not exceed 21, and 0 above 21.
Sign(x) == IF x > 0 THEN 1 ELSE IF x < 0 THEN -1 ELSE 0
Total(h) ==
    IF (\E i \in DOMAIN h : h[i] = 1) /\ sum(h) + 10 <= 21 THEN sum(h) + 10 ELSE sum(h)
Score(h) == IF Total(h) > 21 THEN 0 ELSE Total(h)

\* C11: a stick that returns is done, has left the player hand alone and has
\* appended cards to the dealer hand exactly while its total was below 17;
\* where no override applies the reward is the sign of score(player) -
\* score(dealer), a bust hand scoring 0, and the natural bonus is only paid
\* where that sign is +1.
C11_Stick ==
    [][(lastOp' = "stick" /\ ~raised') =>
        /\ done'
        /\ player' = player
        /\ PlayedOut(dealer', dealer)
        /\ Total(dealer') >= 17
        /\ LET raw == Sign(Score(player') - Score(dealer'))
               forced == sab /\ is_natural(player') /\ ~is_natural(dealer')
           IN /\ (~forced /\ reward' # 3) => reward' = 2 * raw
              /\ reward' = 3 => raw = 1
    ]_vars

C11_Witness ==
    /\ variant = "base"
    /\ lastOp = "stick"
    /\ done
    /\ Len(dealer) = 4
    /\ is_bust(dealer)
    /\ is_bust(player) = FALSE
    /\ reward = 2

\* C12: a step whose action is outside the declared action set raises and
\* changes nothing: hands, shoe and count are as before and no card is drawn.
C12_InvalidActionChangesNothing ==
    [][lastOp' = "invalid" =>
        /\ raised'
        /\ player' = player
        /\ dealer' = dealer
        /\ decks' = decks
        /\ count' = count
        /\ drawn' = drawn
        /\ UNCHANGED <<obs, reward, done>>
    ]_vars

C12_Witness ==
    /\ variant = "base"
    /\ lastOp = "invalid"
    /\ raised
    /\ Len(player) = 3
    /\ Len(dealer) = 2

\* C18: a double that returns pays -2.0, 0.0 or +2.0, never 3.0, whatever the
\* flags: the hand it scores holds three cards or more and is no natural.
C18_DoubleRewards ==
    (lastOp = "double" /\ ~raised) =>
        /\ reward \in {-4, 0, 4}
        /\ Len(player) >= 3
        /\ ~is_natural(player)

C18_Witness ==
    /\ lastOp = "double"
    /\ ~raised
    /\ natural
    /\ ~sab
    /\ Len(player) = 3
    /\ is_natural(SubSeq(player, 1, 2))
    /\ reward = 4

\* C13: in the counted shoe a draw from the empty shoe raises: the call ends
\* there, the draw appends no card to a hand (the hands hold what the call's
\* earlier draws gave them), the shoe stays empty, the count is what the earlier
\* draws left, and nothing reshuffles or retries.
C13_EmptyShoeDrawRaises ==
    [][(variant = "counting" /\ lastOp' \in {"reset"} \cup StepOps) =>
        /\ (decks = <<>> /\ lastOp' \in {"hit", "double"}) =>
              raised' /\ player' = player /\ dealer' = dealer /\ count' = count
        /\ (decks = <<>> /\ lastOp' = "stick" /\ sum_hand(dealer) < 17) =>
              raised' /\ player' = player /\ dealer' = dealer /\ count' = count
        /\ raised' =>
              /\ decks' = <<>>
              /\ ~reshuffled'
              /\ count' = count + HandWeight(decks)
              /\ lastOp' \in StepOps =>
                    /\ Extends(player', player)
                    /\ Extends(dealer', dealer)
                    /\ Len(player') + Len(dealer') = Len(player) + Len(dealer) + Len(decks)
              /\ lastOp' = "reset" => player' = player /\ Len(dealer') <= 2
        /\ ~reshuffled' => Len(decks') <= Len(decks)
    ]_vars

C13_Witness ==
    /\ variant = "counting"
    /\ lastOp = "hit"
    /\ raised
    /\ decks = <<>>
    /\ Len(player) >= 3
    /\ ~done

\* ------------------------------------------------------------- the shoe
\* The counted shoe by itself: what the calls of an instance do to the shoe is a
\* reshuffle at the start of a reset that finds it below the limit, and draws
\* of a card at a random position.  Here every position is followed.
InitShoe ==
    /\ Init
    /\ variant = "counting"
    /\ natural = FALSE
    /\ sab = FALSE

\* draw_card on the shoe: any position pops; the empty shoe raises.
DrawCard ==
    /\ ~raised
    /\ IF decks = <<>>
       THEN raised' = TRUE /\ UNCHANGED <<decks, count, drawn>>
       ELSE \E i \in 1..Len(decks) :
              LET o == draw_at(Shoe, i)
              IN /\ decks' = o.shoe.decks
                 /\ count' = o.shoe.count
                 /\ drawn' = o.shoe.drawn
                 /\ raised' = FALSE
    /\ reshuffled' = FALSE
    /\ UNCHANGED <<variant, natural, sab, num_decks, reshuffle_limit,
                   dealer, player, lastOp, obs, reward, done, aux>>

\* reset's first statement: if len(self.decks) < self.reshuffle_limit: reshuffle
Reshuffle ==
    /\ ~raised
    /\ needs_reshuffle
    /\ decks' = reshuffle_decks.decks
    /\ count' = reshuffle_decks.count
    /\ drawn' = reshuffle_decks.drawn
    /\ reshuffled' = TRUE
    /\ UNCHANGED <<variant, natural, sab, num_decks, reshuffle_limit,
                   dealer, player, lastOp, raised, obs, reward, done, aux>>

NextShoe == DrawCard \/ Reshuffle
SpecShoe == InitShoe /\ [][NextShoe]_vars

\* C14: the running count of the counted shoe always lies between
\* -11 * num_decks and 11 * num_decks.
C14_CountInRange ==
    variant = "counting" => count \in (-11 * num_decks)..(11 * num_decks)

\* The six cards of positive weight are out and no other: the count is 11.
C14_Witness ==
    /\ variant = "counting"
    /\ num_decks = 1
    /\ Tally(drawn) = 6
    /\ count = 11

\* The six low cards are still in, the others are out: the count is -11.
C14_WitnessLow ==
    /\ variant = "counting"
    /\ Len(decks) = 6
    /\ count = -11

\* C19: the running count of the counted shoe is the negated sum of the
\* weights of the cards still in the shoe, and it is 0 whenever the shoe is
\* full or completely drawn.
C19_CountIsMinusShoeWeight ==
    variant = "counting" =>
        /\ count = -HandWeight(decks)
        /\ Len(decks) = Len(deck) * num_decks => count = 0
        /\ decks = <<>> => count = 0

\* The shoe was drawn to the last card, and the draw after it raised.
C19_Witness ==
    /\ variant = "counting"
    /\ decks = <<>>
    /\ Tally(drawn) = Len(deck) * num_decks
    /\ count = 0
    /\ raised

\* ------------------------------------------------------ the hand functions
\* usable_ace, sum_hand, is_bust and score applied to a hand
eval_hand(h) ==
    [hand |-> h, usable |-> usable_ace(h), total |-> sum_hand(h),
     bust |-> is_bust(h), score |-> score(h)]

\* The card values of the deck.
Cards == {deck[i] : i \in DOMAIN deck}

\* draw_hand: two cards; the functions are the same in the three classes.
InitHands ==
    /\ variant = "base"
    /\ natural = FALSE /\ sab = FALSE
    /\ num_decks = 0 /\ reshuffle_limit = 0 /\ decks = <<>> /\ count = 0
    /\ dealer = <<>> /\ player = <<>>
    /\ lastOp = "init" /\ raised = FALSE /\ obs = <<>> /\ reward = 0 /\ done = FALSE
    /\ drawn = NoneDrawn /\ reshuffled = FALSE
    /\ \E c1 \in Cards, c2 \in Cards : evald = eval_hand(<<c1, c2>>)
    /\ lookup = NoLookup
    /\ pc = "idle"

\* hand.append(draw_card(...)), and the functions applied to the longer hand
AppendCard ==
    /\ Len(evald.hand) < MaxHandLen
    /\ \E c \in Cards : evald' = eval_hand(Append(evald.hand, c))
    /\ UNCHANGED <<variant, natural, sab, num_decks, reshuffle_limit, decks, count,
                   dealer, player, lastOp, raised, obs, reward, done, drawn,
                   reshuffled, lookup, pc>>

NextHands == AppendCard
SpecHands == InitHands /\ [][NextHands]_vars

look_up(i, o) ==
    IF has_obs_id(o)
    THEN [at |-> i, o |-> o, found |-> TRUE, id |-> get_obs_id(o)]
    ELSE [at |-> i, o |-> o, found |-> FALSE, id |-> -1]

\* Tuples a caller may ask get_obs_id for: listed ones and ones off each axis.
OtherObs ==
    IF variant = "counting"
    THEN {<<t, u, f, c>> : t \in {3, 4, 31, 32}, u \in {0, 1, 10, 11}, f \in {TRUE},
                           c \in {-11 * num_decks - 1, -11 * num_decks,
                                  11 * num_decks - 1, 11 * num_decks}}
         \cup {<<21, 10, FALSE>>, <<>>}
    ELSE {<<t, u, f>> : t \in {3, 4, 31, 32}, u \in {0, 1, 10, 11}, f \in BOOLEAN}
         \cup {<<21, 10, FALSE, 0>>, <<>>}

\* The table is built by __init__ and depends on the class and num_decks only.
InitEnum ==
    /\ Init
    /\ natural = FALSE
    /\ sab = FALSE
    /\ reshuffle_limit \in {0, 5}

\* for i in range(get_states_count()): get_obs_id(get_all_states()[i])
ListNext ==
    /\ lookup = NoLookup \/ lookup.at >= 0
    /\ lookup.at + 1 < get_states_count
    /\ lookup' = look_up(lookup.at + 1, state_at(lookup.at + 1))
    /\ UNCHANGED <<variant, natural, sab, num_decks, reshuffle_limit, decks, count,
                   dealer, player, lastOp, raised, obs, reward, done, drawn,
                   reshuffled, evald, pc>>

\* get_obs_id(o) on the fresh instance, for a tuple o of the caller's
LookupOther ==
    /\ lookup = NoLookup
    /\ \E o \in OtherObs : lookup' = look_up(-1, o)
    /\ UNCHANGED <<variant, natural, sab, num_decks, reshuffle_limit, decks, count,
                   dealer, player, lastOp, raised, obs, reward, done, drawn,
                   reshuffled, evald, pc>>

NextEnum == ListNext \/ LookupOther
SpecEnum == InitEnum /\ [][NextEnum]_vars

\* Lexicographic order of two listed tuples, the flag axis ordered by flagRank.
LexLess(a, b, flagRank(_)) ==
    LET key(t) == <<t[1], t[2], flagRank(t[3]), IF Len(t) = 4 THEN t[4] ELSE 0>>
        ka == key(a)
        kb == key(b)
    IN \E k \in 1..4 : ka[k] < kb[k] /\ \A j \in 1..(k - 1) : ka[j] = kb[j]
FalseFirst(f) == IF f THEN 1 ELSE 0
TrueFirst(f) == IF f THEN 0 ELSE 1

\* The listed tuple lies on the declared axes.
OnAxes(o) ==
    /\ Len(o) = (IF variant = "counting" THEN 4 ELSE 3)
    /\ o[1] \in 4..31
    /\ o[2] \in 1..10
    /\ o[3] \in BOOLEAN
    /\ variant = "counting" => o[4] \in (-11 * num_decks)..(11 * num_decks - 1)

\* C15 as stated: get_all_states() is in ascending lexicographic order, the
\* player total from 4, the upcard from 1, the usable-ace flag ascending
\* (False before True), the count from -11 * num_decks.
C15_AscendingOrder ==
    /\ lookup.at >= 0 => OnAxes(lookup.o)
    /\ lookup.at = 0 =>
          lookup.o = (IF variant = "counting" THEN <<4, 1, FALSE, -11 * num_decks>>
                      ELSE <<4, 1, FALSE>>)
    /\ lookup.at >= 1 => LexLess(state_at(lookup.at - 1), lookup.o, FalseFirst)

\* C15, amended: get_all_states() is in lexicographic order with the player
\* total ascending from 4 to 31, the upcard ascending from 1 to 10, the
\* usable-ace flag True before False, the count ascending from
\* -11 * num_decks.
C15_DeclaredOrder ==
    /\ lookup.at >= 0 => OnAxes(lookup.o)
    /\ lookup.at = 0 =>
          lookup.o = (IF variant = "counting" THEN <<4, 1, TRUE, -11 * num_decks>>
                      ELSE <<4, 1, TRUE>>)
    /\ lookup.at >= 1 => LexLess(state_at(lookup.at - 1), lookup.o, TrueFirst)
    /\ lookup.at = get_states_count - 1 => lookup.o[1] = 31 /\ lookup.o[2] = 10

\* The whole list of the counted variant was walked.
C15_Witness ==
    /\ variant = "counting"
    /\ lookup.at = get_states_count - 1
    /\ lookup.o = <<31, 10, FALSE, 11 * num_decks - 1>>

\* C16: the table is a bijection onto 0..get_states_count()-1:
\* get_obs_id(get_all_states()[i]) is i for every i, and get_obs_id of a tuple
\* that is not listed raises KeyError and gives no id.
C16_Bijection ==
    lookup # NoLookup =>
        /\ lookup.at >= 0 => lookup.found /\ lookup.id = lookup.at
        /\ lookup.found <=> OnAxes(lookup.o)
        /\ lookup.found =>
              /\ lookup.id \in 0..(get_states_count - 1)
              /\ state_at(lookup.id) = lookup.o
        /\ ~lookup.found => lookup.id = -1

\* A lookup of a tuple one past the count axis raised.
C16_Witness ==
    /\ variant = "counting"
    /\ lookup.at = -1
    /\ lookup.o = <<4, 1, TRUE, 11 * num_decks>>
    /\ ~lookup.found

\* The last listed tuple of the base table has the last id.
C16_WitnessListed ==
    /\ variant = "base"
    /\ lookup.at = 559
    /\ lookup.id = 559
    /\ lookup.found

\* ----------------------------------------------------- the dealer's loop
\* step followed statement by statement through the while loop of the stick
\* branch: pc is "loop" at the loop's test inside step(0), "loop2" at the
\* same test inside the step(0) that step(2) calls.
InitLoop == Init

ResetLoop == pc = "idle" /\ reset

\* Faulty variant of the loop body: the drawn card is not appended.
dealer_append_dropped(d, card) == d
\* self.dealer.append(card)
dealer_append(d, card) == Append(d, card)

\* step(0) up to the loop: done = True is a local until the return
BeginStick ==
    /\ pc = "idle"
    /\ InEpisode
    /\ pc' = "loop"
    /\ lastOp' = "stick"
    /\ reshuffled' = FALSE
    /\ UNCHANGED <<variant, natural, sab, num_decks, reshuffle_limit, decks, count,
                   dealer, player, raised, obs, reward, done, drawn, evald, lookup>>

\* step(2): self.step(1), then, if not done, self.step(0) up to its loop
BeginDouble ==
    /\ pc = "idle"
    /\ InEpisode
    /\ variant # "base"
    /\ \E h \in step_hit(Env) :
          IF h.ok /\ ~h.done
          THEN /\ player' = h.env.player
               /\ decks' = h.env.shoe.decks
               /\ count' = h.env.shoe.count
               /\ drawn' = h.env.shoe.drawn
               /\ pc' = "loop2"
               /\ lastOp' = "double"
               /\ reshuffled' = FALSE
               /\ UNCHANGED <<variant, natural, sab, num_decks, reshuffle_limit,
                              dealer, raised, obs, reward, done, evald, lookup>>
          ELSE Return([h EXCEPT !.reward = 2 * @], "double")

\* the loop's test held and draw_card returned: one turn of the loop
DealerDraw ==
    /\ pc \in {"loop", "loop2"}
    /\ sum_hand(dealer) < 17
    /\ \E o \in draw_card(Shoe) :
          /\ dealer' = dealer_append(dealer, o.card)
          /\ decks' = o.shoe.decks
          /\ count' = o.shoe.count
          /\ drawn' = o.shoe.drawn
    /\ UNCHANGED <<variant, natural, sab, num_decks, reshuffle_limit, player,
                   lastOp, raised, obs, reward, done, reshuffled, aux>>

\* the loop's test held and draw_card raised: the exception leaves step
DealerUnderflow ==
    /\ pc \in {"loop", "loop2"}
    /\ sum_hand(dealer) < 17
    /\ draw_card(Shoe) = {}
    /\ raised' = TRUE
    /\ pc' = "idle"
    /\ UNCHANGED <<variant, natural, sab, num_decks, reshuffle_limit, decks, count,
                   dealer, player, lastOp, obs, reward, done, drawn, reshuffled,
                   evald, lookup>>

\* the loop's test failed: the reward is computed and step returns
LoopExit ==
    /\ pc \in {"loop", "loop2"}
    /\ ~(sum_hand(dealer) < 17)
    /\ reward' = (IF pc = "loop2" THEN 2 ELSE 1) * stick_reward(player, dealer)
    /\ done' = TRUE
    /\ obs' = get_obs(player, dealer, count)
    /\ pc' = "idle"
    /\ UNCHANGED <<variant, natural, sab, num_decks, reshuffle_limit, decks, count,
                   dealer, player, lastOp, raised, drawn, reshuffled, evald, lookup>>

NextLoop ==
    ResetLoop \/ BeginStick \/ BeginDouble \/ DealerDraw \/ DealerUnderflow \/ LoopExit

\* A call that has started goes on running: the interpreter takes the next
\* statement of the loop.  Nothing is assumed about the random source.
SpecLoop ==
    /\ InitLoop
    /\ [][NextLoop]_vars
    /\ WF_vars(DealerDraw)
    /\ WF_vars(DealerUnderflow)
    /\ WF_vars(LoopExit)

\* C20: every stick or double that reached the dealer's loop leaves it: each
\* turn of the loop raises the sum of the dealer's cards by at least 1; with
\* the infinite deck the call returns with done = True; with the counted shoe
\* it returns with done = True or ends in the error of the empty shoe.
C20_StepTerminates ==
    /\ [][(pc # "idle" /\ dealer' # dealer) =>
            /\ sum(dealer') >= sum(dealer) + 1
            /\ Len(dealer') = Len(dealer) + 1]_vars
    /\ (pc # "idle") ~> (pc = "idle" /\ (done \/ raised))
    /\ (pc # "idle" /\ variant # "counting") ~> (pc = "idle" /\ done /\ ~raised)

\* A stick of the infinite deck returned after its loop drew four cards.
C20_Witness ==
    /\ variant = "base"
    /\ pc = "idle"
    /\ lastOp = "stick"
    /\ done
    /\ Len(dealer) = 6

\* A stick of the counted shoe ended in the error of the empty shoe.
C20_WitnessUnderflow ==
    /\ variant = "counting"
    /\ pc = "idle"
    /\ lastOp = "stick"
    /\ raised
    /\ decks = <<>>
====
